---- MODULE Spec2Model ----
(***************************************************************************)
(* A model of the go-SOLID teaching examples: five small Go packages, each *)
(* a set of stateless types, the interfaces they satisfy and a coordinator *)
(* that calls them.  The observable state is the process's standard        *)
(* output and whether the process has aborted in a panic.                  *)
(*                                                                         *)
(* A line of output is a string.  A string argument (content) is the       *)
(* sequence of its newline-separated segments, so that printing it can     *)
(* produce more than one line.  A float64 is its value in hundredths.      *)
(***************************************************************************)
EXTENDS Integers, Sequences, FiniteSets, TLC

\* Number of invocations a driver makes in one run of the model.
MaxCalls == 2

\* Inputs of the drivers.
OrderIds == {1, 2}
Amounts == {0, 5000}
Contents == {<<"Annual Financial Report">>, <<"Draft", "page 2">>}

VARIABLES out, status, panicValue, declared, service, hist

vars == <<out, status, panicValue, declared, service, hist>>

Range(s) == {s[k] : k \in 1..Len(s)}

----------------------------------------------------------------------------
(* fmt                                                                     *)

\* Println given a text that already ends in a newline.
Println_ExtraNewline(a) == <<a, "">>

\* fmt.Println(a): the operand and a newline.
Println(a) == <<a>>

\* fmt.Println(a, content): operands separated by a space, then a newline;
\* line breaks inside content start further lines.
Println2(a, content) == <<a \o " " \o Head(content)>> \o Tail(content)

\* The verb %d.
FmtD(n) == ToString(n)

\* float64(n) for an int n (exact below 2^53), as hundredths.
Float64(n) == n * 100

TwoDigits(c) == IF c < 10 THEN "0" \o ToString(c) ELSE ToString(c)

\* The verb %.2f.
FmtF2(h) ==
    IF h < 0
    THEN "-" \o ToString((0 - h) \div 100) \o "." \o TwoDigits((0 - h) % 100)
    ELSE ToString(h \div 100) \o "." \o TwoDigits(h % 100)

----------------------------------------------------------------------------
(* The outcome of running a function body: the lines it printed and the    *)
(* value it panicked with, if any.                                         *)

NoPanic == "<none>"

Returns(lines) == [lines |-> lines, panic |-> NoPanic]

\* panic(v): nothing reaches standard output, the goroutine unwinds.
Panics(v) == [lines |-> <<>>, panic |-> v]

----------------------------------------------------------------------------
(* Types, by package.                                                      *)

Ty(pkg, name) == [pkg |-> pkg, name |-> name]

OrderRepository == Ty("SingleResponsibility", "OrderRepository")
PaymentService == Ty("SingleResponsibility", "PaymentService")
SRP_EmailService == Ty("SingleResponsibility", "EmailService")
InvoiceService == Ty("SingleResponsibility", "InvoiceService")
OrderService == Ty("SingleResponsibility", "OrderService")

EmailService == Ty("OpenClosed", "EmailService")
SmsService == Ty("OpenClosed", "SmsService")
SlackService == Ty("OpenClosed", "SlackService")

Sparrow == Ty("LiskovSubstitution", "Sparrow")

SimplePrinterOne == Ty("InterfaceSegregation", "SimplePrinterOne")
SimplePrinter == Ty("InterfaceSegregation", "SimplePrinter")
AdvancedMachine == Ty("InterfaceSegregation", "AdvancedMachine")

PDFGenerator == Ty("DependencyInversion", "PDFGenerator")
ReportService == Ty("DependencyInversion", "ReportService")
ReportServiceOne == Ty("DependencyInversion", "ReportServiceOne")

\* The receiver of a call that has none (a package-level function).
NoType == Ty("", "")

\* The types the repository declares; SlackService is the future case.
BaseTypes ==
    {OrderRepository, PaymentService, SRP_EmailService, InvoiceService,
     OrderService, EmailService, SmsService, Sparrow, SimplePrinterOne,
     SimplePrinter, AdvancedMachine, PDFGenerator, ReportService,
     ReportServiceOne}

----------------------------------------------------------------------------
(* Method bodies.                                                          *)

OrderRepository_Save(orderID) ==
    Returns(Println("Saving order " \o FmtD(orderID) \o " to database"))

PaymentService_Process(amount) ==
    Returns(Println("Processing payment of " \o FmtF2(amount)))

SRP_EmailService_Send == Returns(Println("Sending confirmation email"))

InvoiceService_Generate(orderID) ==
    Returns(Println("Generating invoice for order " \o FmtD(orderID)))

EmailService_Send == Returns(Println("Sending email..."))

SmsService_Send == Returns(Println("Sending SMS..."))

SlackService_Send == Returns(Println("sending slack notification..."))

Sparrow_Fly == Returns(Println("Sparrow is flying"))

SimplePrinterOne_Print == Returns(Println("Printing document"))

\* Scan as an empty method instead of a panic.
SimplePrinterOne_Scan_Silent == Returns(<<>>)

SimplePrinterOne_Scan == Panics("Scan not supported")

SimplePrinterOne_Fax == Panics("Fax not supported")

SimplePrinter_Print == Returns(Println("Printing document"))

AdvancedMachine_Print == Returns(Println("Printing document"))

AdvancedMachine_Scan == Returns(Println("Scanning document"))

\* Fax left as a stub.
AdvancedMachine_Fax_Stub == Panics("Fax not supported")

AdvancedMachine_Fax == Returns(Println("Sending fax"))

PDFGenerator_Generate(content) ==
    Returns(Println2("Generating PDF with content:", content))

----------------------------------------------------------------------------
(* Method sets, interfaces and dynamic dispatch.                           *)

\* SimplePrinter made to carry the whole of Machine.
MethodSet_Fat(t) ==
    CASE t = SimplePrinter -> {"Print", "Scan", "Fax"}
      [] t = AdvancedMachine -> {"Print", "Scan", "Fax"}
      [] t = SimplePrinterOne -> {"Print", "Scan", "Fax"}
      [] OTHER -> {}

MethodSet(t) ==
    CASE t = OrderRepository -> {"Save"}
      [] t = PaymentService -> {"Process"}
      [] t = SRP_EmailService -> {"Send"}
      [] t = InvoiceService -> {"Generate"}
      [] t = OrderService -> {"PlaceOrder"}
      [] t = EmailService -> {"Send"}
      [] t = SmsService -> {"Send"}
      [] t = SlackService -> {"Send"}
      [] t = Sparrow -> {"Fly"}
      [] t = SimplePrinterOne -> {"Print", "Scan", "Fax"}
      [] t = SimplePrinter -> {"Print"}
      [] t = AdvancedMachine -> {"Print", "Scan", "Fax"}
      [] t = PDFGenerator -> {"Generate"}
      [] t = ReportService -> {"CreateReport"}
      [] t = ReportServiceOne -> {"CreateReport"}
      [] OTHER -> {}

Iface(pkg, name, methods) == [pkg |-> pkg, name |-> name, methods |-> methods]

Notification == Iface("OpenClosed", "Notification", {"Send"})
Bird == Iface("LiskovSubstitution", "Bird", {"Fly"})
Machine == Iface("InterfaceSegregation", "Machine", {"Print", "Scan", "Fax"})
Printer == Iface("InterfaceSegregation", "Printer", {"Print"})
Scanner == Iface("InterfaceSegregation", "Scanner", {"Scan"})
Faxer == Iface("InterfaceSegregation", "Faxer", {"Fax"})
ReportGenerator == Iface("DependencyInversion", "ReportGenerator", {"Generate"})

Interfaces ==
    {Notification, Bird, Machine, Printer, Scanner, Faxer, ReportGenerator}

\* A type satisfies an interface of its package when its method set holds
\* every method of the interface.
Implements(t, i) == t.pkg = i.pkg /\ i.methods \subseteq MethodSet(t)

\* The leaf methods: those that print or panic themselves.
Leaf(t) == t \notin {OrderService, ReportService, ReportServiceOne}

\* The body a call t.m(args) runs.
Body(t, m, args) ==
    CASE t = OrderRepository /\ m = "Save" -> OrderRepository_Save(args[1])
      [] t = PaymentService /\ m = "Process" -> PaymentService_Process(args[1])
      [] t = SRP_EmailService /\ m = "Send" -> SRP_EmailService_Send
      [] t = InvoiceService /\ m = "Generate" -> InvoiceService_Generate(args[1])
      [] t = EmailService /\ m = "Send" -> EmailService_Send
      [] t = SmsService /\ m = "Send" -> SmsService_Send
      [] t = SlackService /\ m = "Send" -> SlackService_Send
      [] t = Sparrow /\ m = "Fly" -> Sparrow_Fly
      [] t = SimplePrinterOne /\ m = "Print" -> SimplePrinterOne_Print
      [] t = SimplePrinterOne /\ m = "Scan" -> SimplePrinterOne_Scan
      [] t = SimplePrinterOne /\ m = "Fax" -> SimplePrinterOne_Fax
      [] t = SimplePrinter /\ m = "Print" -> SimplePrinter_Print
      [] t = AdvancedMachine /\ m = "Print" -> AdvancedMachine_Print
      [] t = AdvancedMachine /\ m = "Scan" -> AdvancedMachine_Scan
      [] t = AdvancedMachine /\ m = "Fax" -> AdvancedMachine_Fax
      [] t = PDFGenerator /\ m = "Generate" -> PDFGenerator_Generate(args[1])

\* The arguments a driver passes to t.m.
ArgsOf(t, m) ==
    CASE t = OrderRepository -> {<<id>> : id \in OrderIds}
      [] t = PaymentService -> {<<Float64(a)>> : a \in Amounts} \cup {<<1999>>}
      [] t = InvoiceService -> {<<id>> : id \in OrderIds}
      [] t = PDFGenerator -> {<<c>> : c \in Contents}
      [] OTHER -> {<<>>}

----------------------------------------------------------------------------
(* Executions: the calls made, in order, each with the lines it printed,   *)
(* and the panic that ended the execution, if any.                         *)

Invoke(t, m, args) ==
    LET e == Body(t, m, args)
    IN  [calls |-> <<[recv |-> t, method |-> m, args |-> args,
                      lines |-> e.lines]>>,
         panic |-> e.panic]

\* e1; e2 -- a panic in e1 skips e2.
Then(e1, e2) ==
    IF e1.panic # NoPanic
    THEN e1
    ELSE [calls |-> e1.calls \o e2.calls, panic |-> e2.panic]

RECURSIVE Flatten(_)
Flatten(calls) ==
    IF calls = <<>> THEN <<>> ELSE Head(calls).lines \o Flatten(Tail(calls))

Lines(e) == Flatten(e.calls)

----------------------------------------------------------------------------
(* Coordinators.                                                           *)

\* The confirmation email sent before the payment is processed.
PlaceOrderBody_EmailFirst(orderId, amount) ==
    Then(Then(Then(Invoke(OrderRepository, "Save", <<orderId>>),
                   Invoke(SRP_EmailService, "Send", <<>>)),
              Invoke(PaymentService, "Process", <<Float64(amount)>>)),
         Invoke(InvoiceService, "Generate", <<orderId>>))

\* The confirmation email sent only if none was sent before.
PlaceOrderBody_EmailOnce(orderId, amount) ==
    IF "Sending confirmation email" \in Range(out)
    THEN Then(Then(Invoke(OrderRepository, "Save", <<orderId>>),
                   Invoke(PaymentService, "Process", <<Float64(amount)>>)),
              Invoke(InvoiceService, "Generate", <<orderId>>))
    ELSE Then(Then(Then(Invoke(OrderRepository, "Save", <<orderId>>),
                        Invoke(PaymentService, "Process",
                               <<Float64(amount)>>)),
                   Invoke(SRP_EmailService, "Send", <<>>)),
              Invoke(InvoiceService, "Generate", <<orderId>>))

PlaceOrderBody(orderId, amount) ==
    Then(Then(Then(Invoke(OrderRepository, "Save", <<orderId>>),
                   Invoke(PaymentService, "Process", <<Float64(amount)>>)),
              Invoke(SRP_EmailService, "Send", <<>>)),
         Invoke(InvoiceService, "Generate", <<orderId>>))

\* The coordinator deciding by the kind of notification.
SendNotificationBody_ByKind(n) ==
    IF n = EmailService
    THEN Invoke(EmailService, "Send", <<>>)
    ELSE Then(Invoke(EmailService, "Send", <<>>), Invoke(n, "Send", <<>>))

\* The coordinator edited when the new variant was added.
SendNotificationBody_Edited(n) ==
    IF SlackService \in declared
    THEN Invoke(SlackService, "Send", <<>>)
    ELSE Invoke(n, "Send", <<>>)

SendNotificationBody(n) == Invoke(n, "Send", <<>>)

\* Fly called twice.
MakeBirdFlyBody_Twice(b) ==
    Then(Invoke(b, "Fly", <<>>), Invoke(b, "Fly", <<>>))

MakeBirdFlyBody(b) == Invoke(b, "Fly", <<>>)

ReportService_CreateReportBody ==
    LET content == <<"Annual Financial Report">>
    IN  Invoke(PDFGenerator, "Generate", <<content>>)

\* The abstraction-based service given a content of its own.
ReportServiceOne_CreateReportBody_Content(r) ==
    LET content == <<"Annual Report">>
    IN  Invoke(r.generator, "Generate", <<content>>)

ReportServiceOne_CreateReportBody(r) ==
    LET content == <<"Annual Financial Report">>
    IN  Invoke(r.generator, "Generate", <<content>>)

----------------------------------------------------------------------------
(* The state machine.  hist is the log of the driver's invocations: what   *)
(* was invoked, on which variant, whether the variant set had been         *)
(* extended, where standard output stood, and what the invocation did.     *)

\* No ReportServiceOne has been constructed.
NoService == [generator |-> NoType]

Init ==
    /\ out = <<>>
    /\ status = "running"
    /\ panicValue = NoPanic
    /\ declared = BaseTypes
    /\ service = NoService
    /\ hist = <<>>

CanCall == status = "running" /\ Len(hist) < MaxCalls

\* The effect of one invocation on the process.
Run(kind, op, variant, args, e) ==
    /\ out' = out \o Lines(e)
    /\ status' = IF e.panic = NoPanic THEN "running" ELSE "aborted"
    /\ panicValue' = e.panic
    /\ hist' = Append(hist,
                      [kind |-> kind, op |-> op, variant |-> variant,
                       args |-> args,
                       ext |-> SlackService \in declared, from |-> Len(out),
                       calls |-> e.calls, lines |-> Lines(e),
                       panic |-> e.panic])
    /\ UNCHANGED <<declared, service>>

PlaceOrder(orderId, amount) ==
    /\ CanCall
    /\ Run("coordinator", "PlaceOrder", OrderService, <<orderId, amount>>,
           PlaceOrderBody(orderId, amount))

SendNotification(n) ==
    /\ CanCall
    /\ n \in declared
    /\ Implements(n, Notification)
    /\ Run("coordinator", "SendNotification", n, <<>>, SendNotificationBody(n))

MakeBirdFly(b) ==
    /\ CanCall
    /\ b \in declared
    /\ Implements(b, Bird)
    /\ Run("coordinator", "MakeBirdFly", b, <<>>, MakeBirdFlyBody(b))

ReportService_CreateReport ==
    /\ CanCall
    /\ Run("coordinator", "ReportService.CreateReport", PDFGenerator, <<>>,
           ReportService_CreateReportBody)

NewReportServiceOne(generator) ==
    /\ status = "running"
    /\ generator \in declared
    /\ Implements(generator, ReportGenerator)
    /\ service' = [generator |-> generator]
    /\ UNCHANGED <<out, status, panicValue, declared, hist>>

ReportServiceOne_CreateReport ==
    /\ CanCall
    /\ service # NoService
    /\ Run("coordinator", "ReportServiceOne.CreateReport", service.generator,
           <<>>, ReportServiceOne_CreateReportBody(service))

\* A call of a method on a value of its concrete type.
MethodCall(t, m, args) ==
    /\ CanCall
    /\ t \in declared
    /\ Leaf(t)
    /\ m \in MethodSet(t)
    /\ args \in ArgsOf(t, m)
    /\ Run("method", m, t, args, Invoke(t, m, args))

\* A call of a method through an interface the value's type satisfies.
InterfaceCall(i, t, m, args) ==
    /\ CanCall
    /\ t \in declared
    /\ Implements(t, i)
    /\ m \in i.methods
    /\ args \in ArgsOf(t, m)
    /\ Run("method", m, t, args, Invoke(t, m, args))

\* The future case: a new type with its own Send is added to the program.
AddVariant ==
    /\ status = "running"
    /\ SlackService \notin declared
    /\ declared' = declared \cup {SlackService}
    /\ UNCHANGED <<out, status, panicValue, service, hist>>

AllTypes == BaseTypes \cup {SlackService}

Next ==
    \/ \E orderId \in OrderIds, amount \in Amounts : PlaceOrder(orderId, amount)
    \/ \E n \in AllTypes : SendNotification(n)
    \/ \E b \in AllTypes : MakeBirdFly(b)
    \/ ReportService_CreateReport
    \/ \E g \in AllTypes : NewReportServiceOne(g)
    \/ ReportServiceOne_CreateReport
    \/ \E t \in AllTypes : \E m \in MethodSet(t) : \E args \in ArgsOf(t, m) :
           MethodCall(t, m, args)
    \/ \E i \in Interfaces, t \in AllTypes : \E m \in i.methods :
           \E args \in ArgsOf(t, m) : InterfaceCall(i, t, m, args)
    \/ AddVariant

Spec == Init /\ [][Next]_vars

----------------------------------------------------------------------------
(* Properties.                                                             *)

Idx == 1..Len(hist)

\* The part of standard output an invocation wrote.
Segment(h) == SubSeq(out, h.from + 1, h.from + Len(h.lines))

\* The calls of an invocation, without what each printed.
Trace(h) ==
    [j \in 1..Len(h.calls) |->
        <<h.calls[j].recv, h.calls[j].method, h.calls[j].args>>]

IsMethod(h, t, m) == h.kind = "method" /\ h.variant = t /\ h.op = m

\* C1: one PlaceOrder(orderId, amount) calls OrderRepository.Save(orderId),
\* PaymentService.Process(float64(amount)), EmailService.Send() and
\* InvoiceService.Generate(orderId), in that order and each once; each call
\* prints one line, the four lines reach standard output in that order, and
\* each line is printed by exactly one of the four calls.
C1_PlaceOrderSequence ==
    \A k \in Idx : hist[k].op = "PlaceOrder" =>
        LET h == hist[k]
            orderId == h.args[1]
            amount == h.args[2]
        IN  /\ h.panic = NoPanic
            /\ Trace(h) = << <<OrderRepository, "Save", <<orderId>>>>,
                             <<PaymentService, "Process", <<amount * 100>>>>,
                             <<SRP_EmailService, "Send", <<>>>>,
                             <<InvoiceService, "Generate", <<orderId>>>> >>
            /\ \A j \in 1..Len(h.calls) : Len(h.calls[j].lines) = 1
            /\ Segment(h) = h.lines
            /\ \A line \in Range(h.lines) :
                   Cardinality({j \in 1..Len(h.calls) :
                                   line \in Range(h.calls[j].lines)}) = 1
            /\ (orderId = 1 /\ amount = 5000) =>
                   h.lines = <<"Saving order 1 to database",
                               "Processing payment of 5000.00",
                               "Sending confirmation email",
                               "Generating invoice for order 1">>

C1_Witness ==
    \E k \in Idx : /\ hist[k].op = "PlaceOrder"
                   /\ hist[k].args = <<1, 5000>>
                   /\ Len(out) = hist[k].from + 4

\* C2: SendNotification(v) for v EmailService or SmsService makes one call,
\* v's own Send, and prints exactly v's line and no line of another variant;
\* the line for EmailService differs from the line for SmsService.
C2_SendNotificationDispatch ==
    /\ EmailService_Send.lines # SmsService_Send.lines
    /\ \A k \in Idx :
           (hist[k].op = "SendNotification"
                /\ hist[k].variant \in {EmailService, SmsService}) =>
               LET h == hist[k]
               IN  /\ h.panic = NoPanic
                   /\ Trace(h) = << <<h.variant, "Send", <<>>>> >>
                   /\ h.lines = IF h.variant = EmailService
                                THEN <<"Sending email...">>
                                ELSE <<"Sending SMS...">>
                   /\ Segment(h) = h.lines

C2_Witness ==
    \E j, k \in Idx : /\ hist[j].op = "SendNotification"
                      /\ hist[k].op = "SendNotification"
                      /\ hist[j].variant = EmailService
                      /\ hist[k].variant = SmsService
                      /\ hist[j].lines # hist[k].lines

\* C3 as stated: every operation of Machine, called on any type that
\* implements Machine, returns normally and does something.
C3_Original ==
    \A k \in Idx :
        (hist[k].kind = "method" /\ Implements(hist[k].variant, Machine)) =>
            hist[k].panic = NoPanic /\ hist[k].lines # <<>>

\* C3: the types implementing Machine are SimplePrinterOne and
\* AdvancedMachine; every operation of Machine returns normally and prints
\* its line on AdvancedMachine, and so does Print on SimplePrinterOne, while
\* Scan and Fax on SimplePrinterOne are stubs that panic.
C3_MachineOperations ==
    /\ {t \in declared : Implements(t, Machine)}
           = {SimplePrinterOne, AdvancedMachine}
    /\ \A k \in Idx :
           (hist[k].kind = "method" /\ Implements(hist[k].variant, Machine)) =>
               LET h == hist[k]
               IN  IF h.variant = SimplePrinterOne /\ h.op \in {"Scan", "Fax"}
                   THEN h.panic # NoPanic /\ h.lines = <<>>
                   ELSE h.panic = NoPanic /\ Len(h.lines) = 1

C3_Witness ==
    \E j, k \in Idx : /\ IsMethod(hist[j], AdvancedMachine, "Scan")
                      /\ IsMethod(hist[k], AdvancedMachine, "Fax")
                      /\ status = "running"

\* C4: the only type implementing Bird is Sparrow, and MakeBirdFly(b) calls
\* b.Fly() once, prints "Sparrow is flying" and returns without a panic.
C4_MakeBirdFlySafe ==
    /\ {t \in declared : Implements(t, Bird)} = {Sparrow}
    /\ \A k \in Idx : hist[k].op = "MakeBirdFly" =>
           LET h == hist[k]
           IN  /\ h.panic = NoPanic
               /\ (k = Len(hist) => status = "running")
               /\ Trace(h) = << <<h.variant, "Fly", <<>>>> >>
               /\ h.lines = <<"Sparrow is flying">>
               /\ Segment(h) = h.lines

C4_Witness ==
    \E k \in Idx : hist[k].op = "MakeBirdFly" /\ hist[k].variant = Sparrow

\* C5: the method set of SimplePrinter is {Print} and that of
\* AdvancedMachine is {Print, Scan, Fax}; SimplePrinter satisfies Printer but
\* neither Scanner nor Faxer, AdvancedMachine satisfies all three; the only
\* operation ever invoked on a SimplePrinter is Print.
C5_SegregatedMethodSets ==
    /\ MethodSet(SimplePrinter) = {"Print"}
    /\ MethodSet(AdvancedMachine) = {"Print", "Scan", "Fax"}
    /\ Implements(SimplePrinter, Printer)
    /\ ~Implements(SimplePrinter, Scanner)
    /\ ~Implements(SimplePrinter, Faxer)
    /\ \A i \in {Printer, Scanner, Faxer} : Implements(AdvancedMachine, i)
    /\ \A k \in Idx :
           (hist[k].kind = "method" /\ hist[k].variant = SimplePrinter) =>
               hist[k].op = "Print" /\ hist[k].panic = NoPanic

C5_Witness ==
    \E j, k \in Idx : /\ IsMethod(hist[j], SimplePrinter, "Print")
                      /\ IsMethod(hist[k], AdvancedMachine, "Scan")

C7_Original ==
    \A k \in Idx : hist[k].kind = "method" =>
        Len(hist[k].lines) = 1 /\ Len(out) >= hist[k].from + 1

\* C7: one call of an operation that returns normally appends exactly one
\* line to standard output, PDFGenerator.Generate appending one line for
\* each line of its content; SimplePrinterOne.Scan and SimplePrinterOne.Fax,
\* which do not return normally, append none.
C7_OneLinePerOperation ==
    \A k \in Idx : hist[k].kind = "method" =>
        LET h == hist[k]
        IN  IF h.variant = SimplePrinterOne /\ h.op \in {"Scan", "Fax"}
            THEN h.panic # NoPanic /\ h.lines = <<>> /\ Len(out) = h.from
            ELSE /\ h.panic = NoPanic
                 /\ Len(h.lines) = IF h.variant = PDFGenerator
                                   THEN Len(h.args[1])
                                   ELSE 1
                 /\ Segment(h) = h.lines

C7_Witness ==
    /\ Len(hist) = 2
    /\ IsMethod(hist[1], OrderRepository, "Save")
    /\ IsMethod(hist[2], PDFGenerator, "Generate")
    /\ hist[2].args = << <<"Annual Financial Report">> >>
    /\ Len(out) = 2

\* C8: SimplePrinterOne.Scan and SimplePrinterOne.Fax end the process in a
\* panic whose value is "Scan not supported", "Fax not supported", print
\* nothing and do not return; SimplePrinterOne.Print returns normally.
C8_UnsupportedAborts ==
    \A k \in Idx : (hist[k].kind = "method"
                        /\ hist[k].variant = SimplePrinterOne) =>
        LET h == hist[k]
        IN  CASE h.op = "Scan" ->
                    /\ h.panic = "Scan not supported"
                    /\ k = Len(hist)
                    /\ status = "aborted"
                    /\ panicValue = "Scan not supported"
                    /\ Len(out) = h.from
              [] h.op = "Fax" ->
                    /\ h.panic = "Fax not supported"
                    /\ k = Len(hist)
                    /\ status = "aborted"
                    /\ panicValue = "Fax not supported"
                    /\ Len(out) = h.from
              [] h.op = "Print" ->
                    /\ h.panic = NoPanic
                    /\ h.lines = <<"Printing document">>
                    /\ (k = Len(hist) => status = "running")

C8_Witness ==
    /\ Len(hist) = 2
    /\ IsMethod(hist[1], SimplePrinterOne, "Print")
    /\ IsMethod(hist[2], SimplePrinterOne, "Scan")
    /\ status = "aborted"

C10_ReportServiceEquivalence ==
    /\ \A k \in Idx : hist[k].op = "ReportServiceOne.CreateReport" =>
           /\ Trace(hist[k]) = << <<hist[k].variant, "Generate",
                                    << <<"Annual Financial Report">> >> >> >>
           /\ hist[k].panic = NoPanic
           /\ Segment(hist[k]) = hist[k].lines
    /\ \A j, k \in Idx :
           (/\ hist[j].op = "ReportServiceOne.CreateReport"
            /\ hist[j].variant = PDFGenerator
            /\ hist[k].op = "ReportService.CreateReport") =>
               /\ hist[j].lines = hist[k].lines
               /\ hist[j].panic = hist[k].panic

C10_Witness ==
    \E j, k \in Idx : /\ hist[j].op = "ReportServiceOne.CreateReport"
                      /\ hist[j].variant = PDFGenerator
                      /\ hist[k].op = "ReportService.CreateReport"
                      /\ service = [generator |-> PDFGenerator]

====
